---- MODULE Spec2Model ----
(***************************************************************************)
(* FLTIQ: Python wrappers that build a command line for an external tool   *)
(* (FLAIR, SQANTI3, hisat2), launch it as a child process, wait for it,    *)
(* and either return its output or log its stderr and raise; and the       *)
(* driver run_FLTIQ.py that chains the wrappers.                           *)
(*                                                                         *)
(* Representation of Python values:                                        *)
(*   str    a sequence of atoms; the separators "/", ".", "_", " " are     *)
(*          atoms of their own, every other atom is a run of characters    *)
(*          that holds none of them ("-r", "reads1", "8").                 *)
(*   bytes  a run-length encoded sequence of [b |-> byte, n |-> count],    *)
(*          adjacent runs holding different bytes (so that a buffer of     *)
(*          500,001 bytes is a value TLC can hold).                        *)
(*   text decoded from bytes: the same encoding over characters            *)
(*          [c |-> char, n |-> count].                                     *)
(***************************************************************************)
EXTENDS Integers, Sequences, FiniteSets, TLC

VARIABLES
    disk,       \* the paths that exist on disk (what glob.glob sees)
    ctor,       \* per wrapper class: how its constructor call ended
    wrappers,   \* per wrapper class: the instance's attributes, or NoObj
    frame,      \* the wrapper method being executed, or NoFrame
    procs,      \* every child process launched so far, in launch order
    log,        \* every absl logging call so far, in call order
    outcome,    \* how the last finished method call ended, or NoOutcome
    mpc         \* where run_FLTIQ.main is ("off" when main is not running)

vars == <<disk, ctor, wrappers, frame, procs, log, outcome, mpc>>

----------------------------------------------------------------------------
(* Bounds of the model.                                                    *)

MaxReads == 2       \* longest fl_reads list
MaxRuns == 3        \* most runs in a child's stderr buffer

----------------------------------------------------------------------------
(* str                                                                     *)

Last(s) == s[Len(s)]
Front(s) == SubSeq(s, 1, Len(s) - 1)

IsPrefix(p, s) == Len(p) <= Len(s) /\ SubSeq(s, 1, Len(p)) = p

RECURSIVE rstrip(_, _)
rstrip(s, ch) ==
    IF s = <<>> THEN s
    ELSE IF Last(s) = ch THEN rstrip(Front(s), ch) ELSE s

RECURSIVE lstrip(_, _)
lstrip(s, ch) ==
    IF s = <<>> THEN s
    ELSE IF Head(s) = ch THEN lstrip(Tail(s), ch) ELSE s

\* str.strip() with no argument; " " is the only whitespace atom.
strip(s) == rstrip(lstrip(s, " "), " ")

\* str.split(sep): always at least one piece, empty pieces kept.
RECURSIVE splitAcc(_, _, _, _)
splitAcc(s, sep, done, cur) ==
    IF s = <<>> THEN Append(done, cur)
    ELSE IF Head(s) = sep
         THEN splitAcc(Tail(s), sep, Append(done, cur), <<>>)
         ELSE splitAcc(Tail(s), sep, done, Append(cur, Head(s)))

split(s, sep) == splitAcc(s, sep, <<>>, <<>>)

\* str(n) for an int: the decimal digits, one atom each.
Digits == <<"0", "1", "2", "3", "4", "5", "6", "7", "8", "9">>

RECURSIVE strNat(_)
strNat(n) ==
    IF n < 10 THEN <<Digits[n + 1]>>
    ELSE Append(strNat(n \div 10), Digits[(n % 10) + 1])

str(n) == IF n < 0 THEN <<"-">> \o strNat(0 - n) ELSE strNat(n)

----------------------------------------------------------------------------
(* bytes, and the text decoded from them                                   *)
(*                                                                         *)
(* Bytes of the model: "x" (an ASCII letter), " " (space), "LF" (line      *)
(* feed), "C3" "A9" (the two bytes of the UTF-8 encoding of U+00E9) and    *)
(* "FF" (a byte that occurs in no UTF-8 text).  Characters: "x", " ",      *)
(* "LF" and "E9".                                                          *)

Run(ch, n) == [ch |-> ch, n |-> n]

RECURSIVE BLen(_)
BLen(buf) == IF buf = <<>> THEN 0 ELSE Head(buf).n + BLen(Tail(buf))

RECURSIVE Normalize(_)
Normalize(r) ==
    IF Len(r) < 2 THEN r
    ELSE IF r[1].ch = r[2].ch
         THEN Normalize(<<Run(r[1].ch, r[1].n + r[2].n)>> \o Tail(Tail(r)))
         ELSE <<r[1]>> \o Normalize(Tail(r))

\* buf[:k]
RECURSIVE Take(_, _)
Take(buf, k) ==
    IF k <= 0 \/ buf = <<>> THEN <<>>
    ELSE IF Head(buf).n <= k
         THEN <<Head(buf)>> \o Take(Tail(buf), k - Head(buf).n)
         ELSE <<Run(Head(buf).ch, k)>>

\* Whether bytes.decode('utf-8') succeeds: no stray byte, every lead byte
\* followed by exactly its one continuation byte.
RECURSIVE Decodable(_)
Decodable(buf) ==
    IF buf = <<>> THEN TRUE
    ELSE LET h == Head(buf) IN
         IF h.ch \in {"FF", "A9"} THEN FALSE
         ELSE IF h.ch = "C3"
              THEN /\ h.n = 1
                   /\ Len(buf) >= 2
                   /\ buf[2].ch = "A9"
                   /\ buf[2].n = 1
                   /\ Decodable(Tail(Tail(buf)))
              ELSE Decodable(Tail(buf))

RECURSIVE decodeRuns(_)
decodeRuns(buf) ==
    IF buf = <<>> THEN <<>>
    ELSE IF Head(buf).ch = "C3"
         THEN <<Run("E9", 1)>> \o decodeRuns(Tail(Tail(buf)))
         ELSE <<Head(buf)>> \o decodeRuns(Tail(buf))

\* bytes.decode('utf-8') of a decodable buffer.
decode(buf) == Normalize(decodeRuns(buf))

\* str.splitlines(): a line feed ends a line, a trailing line feed opens no
\* further line.
RECURSIVE splitlinesAcc(_, _, _)
splitlinesAcc(t, done, cur) ==
    IF t = <<>> THEN (IF cur = <<>> THEN done ELSE Append(done, cur))
    ELSE LET h == Head(t) IN
         IF h.ch = "LF"
         THEN splitlinesAcc(Tail(t),
                            Append(done, cur) \o [i \in 1..(h.n - 1) |-> <<>>],
                            <<>>)
         ELSE splitlinesAcc(Tail(t), done, Append(cur, h))

splitlines(t) == splitlinesAcc(t, <<>>, <<>>)

\* str.strip() of a line of decoded text.
RECURSIVE textrstrip(_)
textrstrip(t) ==
    IF t = <<>> THEN t
    ELSE IF Last(t).ch = " " THEN textrstrip(Front(t)) ELSE t

RECURSIVE textlstrip(_)
textlstrip(t) ==
    IF t = <<>> THEN t
    ELSE IF Head(t).ch = " " THEN textlstrip(Tail(t)) ELSE t

textstrip(t) == textrstrip(textlstrip(t))

----------------------------------------------------------------------------
(* Objects, exceptions, glob                                               *)

NoObj == [cls |-> "none"]
NoFrame == [pc |-> "none"]
NoOutcome == [kind |-> "none"]

Classes == {"FLAIR", "SQANTI", "Hisat2"}

\* An instance is the function from the attributes assigned so far to their
\* values; reading any other attribute raises AttributeError.
HasAttr(obj, a) == a \in DOMAIN obj

RECURSIVE FirstMissing(_, _)
FirstMissing(obj, attrs) ==
    IF attrs = <<>> THEN ""
    ELSE IF HasAttr(obj, Head(attrs)) THEN FirstMissing(obj, Tail(attrs))
         ELSE Head(attrs)

Raised(exc, what) == [exc |-> exc, what |-> what]

\* glob.glob(reads_path + '_*'): the paths on disk that start with
\* reads_path and "_", the rest ("*") holding no "/".
Glob(files, reads_path) ==
    {f \in files :
        /\ IsPrefix(reads_path \o <<"_">>, f)
        /\ \A i \in (Len(reads_path) + 2)..Len(f) : f[i] # "/"}

----------------------------------------------------------------------------
(* Constructors                                                            *)

\* FirstUnmatched with a fault: only the first path of the list is looked up.
FirstUnmatched_HeadOnly(files, reads) ==
    IF reads # <<>> /\ Glob(files, Head(reads)) = {} THEN <<Head(reads)>>
    ELSE <<>>

\* The first path of the list that glob finds nothing for, or <<>>.
RECURSIVE FirstUnmatched(_, _)
FirstUnmatched(files, reads) ==
    IF reads = <<>> THEN <<>>
    ELSE IF Glob(files, Head(reads)) = {} THEN <<Head(reads)>>
         ELSE FirstUnmatched(files, Tail(reads))

\* FLAIR.__init__: the attributes of a FLAIR instance once it has run.
FLAIR_obj(reference, annotation, fl_reads, n_cpu, is_native_rna, output_dir) ==
    [cls |-> "FLAIR",
     reference |-> reference,
     annotation |-> annotation,
     fl_reads |-> fl_reads,
     n_cpu |-> n_cpu,
     output_dir |-> output_dir,
     is_native_rna |-> is_native_rna]

FLAIR_init(files, reference, annotation, fl_reads, n_cpu, is_native_rna, output_dir) ==
    LET bad == FirstUnmatched(files, fl_reads) IN
    IF bad # <<>>
    THEN [exc |-> "ValueError", what |-> bad[1], logged |-> <<bad[1]>>]
    ELSE [exc |-> "none", what |-> <<>>, logged |-> <<>>,
          obj |-> FLAIR_obj(reference, annotation, fl_reads, n_cpu,
                            is_native_rna, output_dir)]

\* SQANTI.__init__: the attributes of a SQANTI instance once it has run.
SQANTI_obj(sqanti_dir, isoforms, annotation, reference, n_cpu, output_dir) ==
    [cls |-> "SQANTI",
     sqanti_dir |-> sqanti_dir,
     isoforms |-> isoforms,
     annotation |-> annotation,
     reference |-> reference,
     n_cpu |-> n_cpu,
     output_dir |-> output_dir]

SQANTI_init(files, sqanti_dir, isoforms, annotation, reference, n_cpu, output_dir) ==
    LET assigned == [cls |-> "SQANTI",
                     sqanti_dir |-> sqanti_dir,
                     isoforms |-> isoforms,
                     annotation |-> annotation,
                     reference |-> reference]
    IN  IF ~HasAttr(assigned, "reads")
        THEN [exc |-> "AttributeError", what |-> <<"reads">>, logged |-> <<>>]
        ELSE LET bad == FirstUnmatched(files, assigned.reads) IN
             IF bad # <<>>
             THEN [exc |-> "ValueError", what |-> bad[1], logged |-> <<bad[1]>>]
             ELSE [exc |-> "none", what |-> <<>>, logged |-> <<>>,
                   obj |-> SQANTI_obj(sqanti_dir, isoforms, annotation,
                                      reference, n_cpu, output_dir)]

\* Hisat2.__init__: the attributes of a Hisat2 instance once it has run.
Hisat2_obj(hisat2_idx, n_cpu, output_dir) ==
    [cls |-> "Hisat2",
     hisat2_idx |-> hisat2_idx,
     n_cpu |-> n_cpu,
     output_dir |-> output_dir]

Hisat2_init(files, hisat2_idx, n_cpu, output_dir) ==
    LET assigned == [cls |-> "Hisat2", hisat2_idx |-> hisat2_idx] IN
    IF ~HasAttr(assigned, "reads")
    THEN [exc |-> "AttributeError", what |-> <<"reads">>, logged |-> <<>>]
    ELSE LET bad == FirstUnmatched(files, assigned.reads) IN
         IF bad # <<>>
         THEN [exc |-> "ValueError", what |-> bad[1], logged |-> <<bad[1]>>]
         ELSE [exc |-> "none", what |-> <<>>, logged |-> <<>>,
               obj |-> Hisat2_obj(hisat2_idx, n_cpu, output_dir)]

----------------------------------------------------------------------------
(* Command construction                                                    *)

Ops == {"align", "correct", "collapse", "qc", "run"}

ClassOf(op) ==
    IF op \in {"align", "correct", "collapse"} THEN "FLAIR"
    ELSE IF op = "qc" THEN "SQANTI" ELSE "Hisat2"

\* The name each method uses for itself in its log lines and its error.
Label(op) ==
    CASE op = "align" -> "FLAIR align"
      [] op = "correct" -> "FLAIR correct"
      [] op = "collapse" -> "FLAIR collapse"
      [] op = "qc" -> "SQANTI"
      [] op = "run" -> "hisat2"

Built(cmd) == [exc |-> "none", cmd |-> cmd]

\* for db_path in ...: reads_cmd.append('-r'); reads_cmd.append(db_path)
RECURSIVE reads_cmd(_)
reads_cmd(reads) ==
    IF reads = <<>> THEN <<>>
    ELSE << <<"-r">>, Head(reads) >> \o reads_cmd(Tail(reads))

\* align_cmd with a fault: '--nvrna' appended after the read files.
align_cmd_NvrnaLast(obj) ==
    Built(<< <<"flair">>, <<"align">>,
             <<"-g">>, obj.reference,
             <<"-t">>, str(obj.n_cpu),
             <<"-o">>, obj.output_dir >>
          \o reads_cmd(obj.fl_reads)
          \o (IF obj.is_native_rna THEN << <<"--nvrna">> >> ELSE <<>>))

align_cmd(obj) ==
    LET miss == FirstMissing(obj, <<"fl_reads", "reference", "n_cpu",
                                    "output_dir", "is_native_rna">>)
    IN  IF miss # "" THEN Raised("AttributeError", <<miss>>)
        ELSE Built(<< <<"flair">>, <<"align">>,
                      <<"-g">>, obj.reference,
                      <<"-t">>, str(obj.n_cpu),
                      <<"-o">>, obj.output_dir >>
                   \o (IF obj.is_native_rna THEN << <<"--nvrna">> >> ELSE <<>>)
                   \o reads_cmd(obj.fl_reads))

correct_cmd(obj) ==
    LET miss == FirstMissing(obj, <<"binary_path", "reference", "annotation",
                                    "n_cpu", "output_dir">>)
    IN  IF miss # "" THEN Raised("AttributeError", <<miss>>)
        ELSE Built(<< obj.binary_path, <<"correct">>,
                      <<"-q">>, obj.reference,
                      <<"-g">>, obj.reference,
                      <<"--gtf">>, obj.annotation,
                      <<"-t">>, str(obj.n_cpu),
                      <<"-o">>, obj.output_dir >>)

collapse_cmd(obj) ==
    LET miss == FirstMissing(obj, <<"reads", "binary_path", "reference",
                                    "annotation", "n_cpu", "output_dir">>)
    IN  IF miss # "" THEN Raised("AttributeError", <<miss>>)
        ELSE Built(<< obj.binary_path, <<"collapse">>,
                      <<"-g">>, obj.reference,
                      <<"-q">>, obj.reference,
                      <<"--gtf">>, obj.annotation,
                      <<"-t">>, str(obj.n_cpu),
                      <<"-o">>, obj.output_dir >>
                   \o reads_cmd(obj.reads))

qc_cmd(obj) ==
    LET miss == FirstMissing(obj, <<"sqanti_dir", "n_cpu", "isoforms",
                                    "annotation", "reference">>)
    IN  IF miss # "" THEN Raised("AttributeError", <<miss>>)
        ELSE Built(<< <<"python">>,
                      rstrip(obj.sqanti_dir, "/")
                          \o <<"/", "sqanti3", "_", "qc", ".", "py">>,
                      <<"-t">>, str(obj.n_cpu),
                      <<"-d">>, <<"self", ".", "output", "_", "dir">>,
                      obj.isoforms,
                      obj.annotation,
                      obj.reference >>)

\* R1_path.strip().split("/")[-1].split(".")[-2]
sample_name_parts(R1_path) == split(Last(split(strip(R1_path), "/")), ".")

run_cmd(obj, R1_path, R2_path) ==
    LET parts == sample_name_parts(R1_path) IN
    IF Len(parts) < 2 THEN Raised("IndexError", <<"list index out of range">>)
    ELSE LET sample_name == parts[Len(parts) - 1]
             miss == FirstMissing(obj, <<"output_dir", "n_cpu", "hisat2_idx">>)
         IN  IF miss # "" THEN Raised("AttributeError", <<miss>>)
             ELSE LET samfile_path == rstrip(obj.output_dir, "/") \o <<"/">>
                                          \o sample_name \o <<".", "sam">>
                  IN  [exc |-> "none",
                       cmd |-> << <<"hisat2">>,
                                  <<"-p">>, str(obj.n_cpu),
                                  <<"-x">>, obj.hisat2_idx,
                                  <<"-1">>, R1_path,
                                  <<"-2">>, R2_path,
                                  <<"-S">>, samfile_path >>,
                       samfile_path |-> samfile_path]

\* The command of one call: what the method computes before it logs
\* 'Launching subprocess' and calls subprocess.Popen.
CmdOf(op, obj, R1_path, R2_path) ==
    CASE op = "align" -> align_cmd(obj)
      [] op = "correct" -> correct_cmd(obj)
      [] op = "collapse" -> collapse_cmd(obj)
      [] op = "qc" -> qc_cmd(obj)
      [] op = "run" -> run_cmd(obj, R1_path, R2_path)

----------------------------------------------------------------------------
(* Reporting: what a method does once its child has exited                 *)

StderrCeiling == 500000

\* ' '.join(cmd)
RECURSIVE Join(_)
Join(cmd) ==
    IF cmd = <<>> THEN <<>>
    ELSE IF Len(cmd) = 1 THEN cmd[1]
         ELSE cmd[1] \o <<" ">> \o Join(Tail(cmd))

LogEntry(level, msg, arg) == [level |-> level, msg |-> msg, arg |-> arg]

\* raw_output with a fault: the two pipes stored under each other's key.
raw_output_Swapped(op, built, stdout, stderr) ==
    IF op = "run"
    THEN [output |-> stderr, stderr |-> stdout,
          samfile_path |-> built.samfile_path]
    ELSE [output |-> stderr, stderr |-> stdout]

\* raw_output = dict(output=stdout, stderr=stderr[, samfile_path=...])
raw_output(op, built, stdout, stderr) ==
    IF op = "run"
    THEN [output |-> stdout, stderr |-> stderr,
          samfile_path |-> built.samfile_path]
    ELSE [output |-> stdout, stderr |-> stderr]

\* The two byte strings the RuntimeError's message is formatted from.
EmbeddedStdout(stdout) == stdout
\* EmbeddedStderr with a fault: the slice dropped.
EmbeddedStderr_Whole(stderr) == stderr

EmbeddedStderr(stderr) == Take(stderr, StderrCeiling)

\* raise RuntimeError('... failed\nstdout:\n%s\n\nstderr:\n%s\n' % (...)):
\* both decodes are evaluated before the exception is built.
FailureOf(op, stdout, stderr) ==
    IF Decodable(EmbeddedStdout(stdout)) /\ Decodable(EmbeddedStderr(stderr))
    THEN [kind |-> "raise", op |-> op, exc |-> "RuntimeError",
          what |-> [label |-> Label(op),
                    stdout |-> decode(EmbeddedStdout(stdout)),
                    stderr |-> decode(EmbeddedStderr(stderr))]]
    ELSE [kind |-> "raise", op |-> op, exc |-> "UnicodeDecodeError",
          what |-> <<>>]

----------------------------------------------------------------------------
(* One method call, step by step                                           *)

\* Method entry up to the command: the call either raises while building
\* the command or stands before 'Launching subprocess' / subprocess.Popen.
Invoke(op, R1_path, R2_path) ==
    /\ frame = NoFrame
    /\ wrappers[ClassOf(op)] # NoObj
    /\ LET built == CmdOf(op, wrappers[ClassOf(op)], R1_path, R2_path) IN
       IF built.exc # "none"
       THEN /\ outcome' = [kind |-> "raise", op |-> op, exc |-> built.exc,
                           what |-> built.what]
            /\ frame' = NoFrame
       ELSE /\ outcome' = NoOutcome
            /\ frame' = [pc |-> "popen", op |-> op, built |-> built, pid |-> 0,
                         stdout |-> <<>>, stderr |-> <<>>, retcode |-> 0,
                         lines |-> <<>>, i |-> 0]
    /\ UNCHANGED <<disk, ctor, wrappers, procs, log>>

\* logging.info('Launching subprocess "%s"', ' '.join(cmd));
\* process = subprocess.Popen(cmd, stdout=PIPE, stderr=PIPE)
Popen ==
    /\ frame.pc = "popen"
    /\ log' = Append(log, LogEntry("info", "Launching subprocess",
                                   Join(frame.built.cmd)))
    /\ procs' = Append(procs, [op |-> frame.op, cmd |-> frame.built.cmd,
                               state |-> "running", retcode |-> 0,
                               stdout |-> <<>>, stderr |-> <<>>])
    /\ frame' = [frame EXCEPT !.pc = "communicate", !.pid = Len(procs) + 1]
    /\ UNCHANGED <<disk, ctor, wrappers, outcome, mpc>>

\* stdout, stderr = process.communicate(); retcode = process.wait():
\* the method blocks until the child has exited; what the child wrote and
\* its exit code are the child's choice.
Communicate(Outs, Errs, Codes) ==
    /\ frame.pc = "communicate"
    /\ \E out \in Outs, err \in Errs, rc \in Codes :
        /\ procs' = [procs EXCEPT ![frame.pid] =
                        [@ EXCEPT !.state = "exited", !.retcode = rc,
                                  !.stdout = out, !.stderr = err]]
        /\ frame' = [frame EXCEPT !.pc = "retcode", !.stdout = out,
                                  !.stderr = err, !.retcode = rc]
    /\ UNCHANGED <<disk, ctor, wrappers, log, outcome, mpc>>

\* retcode == 0: return [raw_output]
Return ==
    /\ frame.pc = "retcode"
    /\ frame.retcode = 0
    /\ outcome' = [kind |-> "return", op |-> frame.op,
                   value |-> <<raw_output(frame.op, frame.built,
                                           frame.stdout, frame.stderr)>>]
    /\ frame' = NoFrame
    /\ UNCHANGED <<disk, ctor, wrappers, procs, log, mpc>>

\* retcode != 0: logging.error('... failed. ... stderr begin:'), then the
\* for statement evaluates stderr.decode('utf-8').splitlines().
LogBegin ==
    /\ frame.pc = "retcode"
    /\ frame.retcode # 0
    /\ log' = Append(log, LogEntry("error", "stderr begin", Label(frame.op)))
    /\ IF Decodable(frame.stderr)
       THEN /\ frame' = [frame EXCEPT !.pc = "loop", !.i = 1,
                             !.lines = splitlines(decode(frame.stderr))]
            /\ UNCHANGED outcome
       ELSE /\ frame' = NoFrame
            /\ outcome' = [kind |-> "raise", op |-> frame.op,
                           exc |-> "UnicodeDecodeError", what |-> <<>>]
    /\ UNCHANGED <<disk, ctor, wrappers, procs, mpc>>

\* The line the loop body sends to logging.error, or <<>> for none.
LoggedLine(error_line) ==
    IF textstrip(error_line) # <<>> THEN <<textstrip(error_line)>> ELSE <<>>

\* One iteration of: for error_line in ...: if error_line.strip(): ...
LoopIter ==
    /\ frame.pc = "loop"
    /\ frame.i <= Len(frame.lines)
    /\ log' = log \o [k \in 1..Len(LoggedLine(frame.lines[frame.i])) |->
                        LogEntry("error", "stderr line",
                                 LoggedLine(frame.lines[frame.i])[k])]
    /\ frame' = [frame EXCEPT !.i = @ + 1]
    /\ UNCHANGED <<disk, ctor, wrappers, procs, outcome, mpc>>

\* logging.error('... stderr end')
LogEnd ==
    /\ frame.pc = "loop"
    /\ frame.i > Len(frame.lines)
    /\ log' = Append(log, LogEntry("error", "stderr end", Label(frame.op)))
    /\ frame' = [frame EXCEPT !.pc = "raise"]
    /\ UNCHANGED <<disk, ctor, wrappers, procs, outcome, mpc>>

\* raise RuntimeError(...)
Raise ==
    /\ frame.pc = "raise"
    /\ outcome' = FailureOf(frame.op, frame.stdout, frame.stderr)
    /\ frame' = NoFrame
    /\ UNCHANGED <<disk, ctor, wrappers, procs, log, mpc>>

----------------------------------------------------------------------------
(* Inputs                                                                  *)

SeqsUpTo(S, n) == UNION {[1..k -> S] : k \in 0..n}

Reference == <<"ref", ".", "fa">>
Annotation == <<"anno", ".", "gtf">>
Isoforms == <<"myProject", ".", "isoforms", ".", "gtf">>
Hisat2Idx == <<"idx">>

NCpus == {4, 16}
OutputDirs == {<<"out">>, <<"out", "/">>}
SqantiDirs == {<<"sq">>, <<"sq", "/">>}
ReadFiles == {<<"reads1">>, <<"reads2">>}
ReadLists == SeqsUpTo(ReadFiles, MaxReads)

R1Paths ==
    { <<"/", "data", "/", "sampleA", ".", "fastq">>,
      <<"sampleA", ".", "fastq">>,
      <<" ", "sampleA", ".", "fq", " ">>,
      <<"sampleA", ".", "fastq", ".", "gz">>,
      <<"sample", ".", "A", ".", "fastq">>,
      <<"/", "da", ".", "ta", "/", "sampleA">>,
      <<"sampleA">> }
R2Paths == { <<"sampleA", "_", "R2", ".", "fastq">> }

\* What may exist on disk when a constructor runs.
DiskPaths ==
    { <<"reads1">>, <<"reads1", "_", "a">>, <<"reads2">>,
      <<"reads2", "_", "b">> }

\* What a child may write and how it may exit.
Codes == {0, 1, -9}
FewOuts == { <<>>, <<Run("x", 1)>> }
FewErrs == { <<>>, <<Run("x", 1), Run("LF", 1), Run(" ", 1)>> }

StdoutSamples ==
    { <<>>,
      <<Run("x", 1), Run("LF", 1)>>,
      <<Run("x", StderrCeiling), Run(" ", 1)>>,
      <<Run("FF", 1)>> }
ErrRuns ==
    { Run("x", 1), Run("x", StderrCeiling - 1), Run(" ", 1), Run("LF", 1),
      Run("LF", 2), Run("C3", 1), Run("A9", 1), Run("FF", 1) }
StderrBufs == {b \in SeqsUpTo(ErrRuns, MaxRuns) : Normalize(b) = b}

----------------------------------------------------------------------------
(* Callers                                                                 *)

\* A caller of the library calls one method of a constructed wrapper.
Call ==
    /\ mpc = "off"
    /\ outcome = NoOutcome
    /\ \E op \in Ops, R1_path \in R1Paths, R2_path \in R2Paths :
           Invoke(op, R1_path, R2_path)
    /\ UNCHANGED mpc

Born(r, given) ==
    [status |-> IF r.exc = "none" THEN "ok" ELSE r.exc, reads |-> given]

CtorLog(cls, r) ==
    [k \in 1..Len(r.logged) |->
        LogEntry("error", "Could not find reads", <<cls, r.logged[k]>>)]

\* FLAIR(reference=..., annotation=..., fl_reads=..., ...)
Construct_FLAIR ==
    /\ ctor["FLAIR"].status = "unborn"
    /\ frame = NoFrame /\ outcome = NoOutcome
    /\ \E fl_reads \in ReadLists, is_native_rna \in BOOLEAN :
        LET r == FLAIR_init(disk, Reference, Annotation, fl_reads, 8,
                            is_native_rna, <<"out">>)
        IN  /\ ctor' = [ctor EXCEPT !["FLAIR"] = Born(r, fl_reads)]
            /\ wrappers' = IF r.exc = "none"
                           THEN [wrappers EXCEPT !["FLAIR"] = r.obj]
                           ELSE wrappers
            /\ log' = log \o CtorLog("FLAIR", r)
    /\ UNCHANGED <<disk, frame, procs, outcome, mpc>>

\* SQANTI(sqanti_dir=..., isoforms=..., ...)
Construct_SQANTI ==
    /\ ctor["SQANTI"].status = "unborn"
    /\ frame = NoFrame /\ outcome = NoOutcome
    /\ \E sqanti_dir \in SqantiDirs :
        LET r == SQANTI_init(disk, sqanti_dir, Isoforms, Annotation,
                             Reference, 8, <<"out">>)
        IN  /\ ctor' = [ctor EXCEPT !["SQANTI"] = Born(r, <<>>)]
            /\ wrappers' = IF r.exc = "none"
                           THEN [wrappers EXCEPT !["SQANTI"] = r.obj]
                           ELSE wrappers
            /\ log' = log \o CtorLog("SQANTI", r)
    /\ UNCHANGED <<disk, frame, procs, outcome, mpc>>

\* Hisat2(hisat2_idx=..., ...)
Construct_Hisat2 ==
    /\ ctor["Hisat2"].status = "unborn"
    /\ frame = NoFrame /\ outcome = NoOutcome
    /\ \E output_dir \in OutputDirs :
        LET r == Hisat2_init(disk, Hisat2Idx, 8, output_dir)
        IN  /\ ctor' = [ctor EXCEPT !["Hisat2"] = Born(r, <<>>)]
            /\ wrappers' = IF r.exc = "none"
                           THEN [wrappers EXCEPT !["Hisat2"] = r.obj]
                           ELSE wrappers
            /\ log' = log \o CtorLog("Hisat2", r)
    /\ UNCHANGED <<disk, frame, procs, outcome, mpc>>

----------------------------------------------------------------------------
(* run_FLTIQ.main                                                          *)

StageOrder == <<"align", "correct", "collapse", "qc", "run">>

StageIndex(op) == CHOOSE i \in 1..Len(StageOrder) : StageOrder[i] = op

\* Where main stands once the call of stage op has returned.
AfterStage(op) ==
    IF StageIndex(op) = Len(StageOrder) THEN "done"
    ELSE StageOrder[StageIndex(op) + 1]

\* if len(argv) > 1: raise app.UsageError(...); logging.set_verbosity(...)
MainEnter ==
    /\ mpc = "start"
    /\ \E argc \in {1, 2} :
        mpc' = IF argc > 1 THEN "UsageError" ELSE StageOrder[1]
    /\ UNCHANGED <<disk, ctor, wrappers, frame, procs, log, outcome>>

\* The statement of main that calls the stage main stands at.
MainCall ==
    /\ mpc \in Ops
    /\ outcome = NoOutcome
    /\ \E R1_path \in R1Paths, R2_path \in R2Paths :
           Invoke(mpc, R1_path, R2_path)
    /\ UNCHANGED mpc

\* MainResume with a fault: main catches the exception of a stage and goes on.
MainResume_Swallow ==
    /\ mpc \in Ops
    /\ frame = NoFrame
    /\ outcome # NoOutcome
    /\ mpc' = AfterStage(mpc)
    /\ outcome' = NoOutcome
    /\ UNCHANGED <<disk, ctor, wrappers, frame, procs, log>>

\* The call returns into main: the returned list is dropped and main goes
\* on; an exception is not caught and ends main.
MainResume ==
    /\ mpc \in Ops
    /\ frame = NoFrame
    /\ outcome # NoOutcome
    /\ IF outcome.kind = "return"
       THEN /\ mpc' = AfterStage(mpc)
            /\ outcome' = NoOutcome
       ELSE /\ mpc' = "raised"
            /\ UNCHANGED outcome
    /\ UNCHANGED <<disk, ctor, wrappers, frame, procs, log>>

----------------------------------------------------------------------------
(* Specifications                                                          *)

Unborn == [status |-> "unborn", reads |-> <<>>]
Made(reads) == [status |-> "ok", reads |-> reads]

FlairInstances ==
    { FLAIR_obj(Reference, Annotation, fl_reads, n_cpu, is_native_rna, output_dir) :
        fl_reads \in ReadLists, n_cpu \in NCpus, is_native_rna \in BOOLEAN,
        output_dir \in OutputDirs }
SqantiInstances ==
    { SQANTI_obj(sqanti_dir, Isoforms, Annotation, Reference, n_cpu, output_dir) :
        sqanti_dir \in SqantiDirs, n_cpu \in NCpus, output_dir \in OutputDirs }
Hisat2Instances ==
    { Hisat2_obj(Hisat2Idx, n_cpu, output_dir) :
        n_cpu \in NCpus, output_dir \in OutputDirs }

Quiet ==
    /\ frame = NoFrame
    /\ procs = <<>>
    /\ log = <<>>
    /\ outcome = NoOutcome

\* One wrapper whose constructor has run, with any configuration; a caller
\* calls one of its methods.
Init ==
    /\ disk = {}
    /\ \E obj \in FlairInstances \cup SqantiInstances \cup Hisat2Instances :
        /\ wrappers = [c \in Classes |-> IF c = obj.cls THEN obj ELSE NoObj]
        /\ ctor = [c \in Classes |->
                     IF c # obj.cls THEN Unborn
                     ELSE IF c = "FLAIR" THEN Made(obj.fl_reads) ELSE Made(<<>>)]
    /\ Quiet
    /\ mpc = "off"

Next ==
    \/ Call
    \/ Popen
    \/ Communicate(FewOuts, FewErrs, Codes)
    \/ Return
    \/ LogBegin
    \/ LoopIter
    \/ LogEnd
    \/ Raise

Spec == Init /\ [][Next]_vars

\* The three wrappers with one configuration each; the child of the called
\* method writes any of the sample outputs.
ScenarioFlair ==
    FLAIR_obj(Reference, Annotation, << <<"reads1">>, <<"reads2">> >>, 8,
              TRUE, <<"out">>)
ScenarioSqanti ==
    SQANTI_obj(<<"sq">>, Isoforms, Annotation, Reference, 8, <<"out">>)
ScenarioHisat2 == Hisat2_obj(Hisat2Idx, 8, <<"out">>)

InitReport ==
    /\ disk = {}
    /\ wrappers = [c \in Classes |->
                     IF c = "FLAIR" THEN ScenarioFlair
                     ELSE IF c = "SQANTI" THEN ScenarioSqanti
                     ELSE ScenarioHisat2]
    /\ ctor = [c \in Classes |->
                 IF c = "FLAIR" THEN Made(ScenarioFlair.fl_reads) ELSE Made(<<>>)]
    /\ Quiet
    /\ mpc = "off"

NextReport ==
    \/ Call
    \/ Popen
    \/ Communicate(StdoutSamples, StderrBufs, Codes)
    \/ Return
    \/ LogBegin
    \/ LoopIter
    \/ LogEnd
    \/ Raise

SpecReport == InitReport /\ [][NextReport]_vars

\* The constructors, on any disk, and then one method call.
InitCtor ==
    /\ disk \in SUBSET DiskPaths
    /\ wrappers = [c \in Classes |-> NoObj]
    /\ ctor = [c \in Classes |-> Unborn]
    /\ Quiet
    /\ mpc = "off"

NextCtor ==
    \/ Construct_FLAIR
    \/ Construct_SQANTI
    \/ Construct_Hisat2
    \/ Call
    \/ Popen
    \/ Communicate(FewOuts, FewErrs, Codes)
    \/ Return
    \/ LogBegin
    \/ LoopIter
    \/ LogEnd
    \/ Raise

SpecInit == InitCtor /\ [][NextCtor]_vars

\* str iterated as a sequence: one element per atom.
IterStr(s) == [i \in 1..Len(s) |-> <<s[i]>>]

\* main, entered with the three module-level wrappers holding what their
\* constructors assign from FLAGS (FLAGS.fl_reads is a string).  The module
\* as written does not get that far: run_FLTIQ.py:36-40 passes positionally
\* what the constructors accept by keyword only, and SQANTI.__init__ and
\* Hisat2.__init__ read self.reads, which nothing assigns (SpecInit).
FlagsFlReads == { <<"reads1">>, <<"r", "_", "s">>, <<>> }

InitMain ==
    /\ disk = {}
    /\ \E fl_reads \in FlagsFlReads, n_cpu \in NCpus, is_native_rna \in BOOLEAN,
          output_dir \in OutputDirs :
        /\ wrappers = [c \in Classes |->
              IF c = "FLAIR"
              THEN FLAIR_obj(Reference, Annotation, IterStr(fl_reads), n_cpu,
                             is_native_rna, output_dir)
              ELSE IF c = "SQANTI"
              THEN SQANTI_obj(<<"sq">>, Isoforms, Annotation, Reference,
                              n_cpu, output_dir)
              ELSE Hisat2_obj(Hisat2Idx, n_cpu, output_dir)]
        /\ ctor = [c \in Classes |->
                     IF c = "FLAIR" THEN Made(IterStr(fl_reads)) ELSE Made(<<>>)]
    /\ Quiet
    /\ mpc = "start"

NextMain ==
    \/ MainEnter
    \/ MainCall
    \/ MainResume
    \/ Popen
    \/ Communicate(FewOuts, FewErrs, Codes)
    \/ Return
    \/ LogBegin
    \/ LoopIter
    \/ LogEnd
    \/ Raise

SpecMain == InitMain /\ [][NextMain]_vars

----------------------------------------------------------------------------
(* Properties                                                              *)

ProcIds == 1..Len(procs)
LaunchedOps == [i \in ProcIds |-> procs[i].op]
Exited(i) == procs[i].state = "exited"
Failed(i) == Exited(i) /\ procs[i].retcode # 0

\* The token that follows the first occurrence of flag in cmd.
TokenAfter(cmd, flag) ==
    cmd[(CHOOSE i \in 1..(Len(cmd) - 1) :
            cmd[i] = flag /\ \A j \in 1..(i - 1) : cmd[j] # flag) + 1]

\* The call has ended and its child had been launched.
CallEndedAfterChild ==
    /\ frame = NoFrame
    /\ outcome # NoOutcome
    /\ procs # <<>>
    /\ Last(procs).op = outcome.op

C2_FailureAborts ==
    \A i \in ProcIds :
        Failed(i) =>
            /\ i = Len(procs)
            /\ Cardinality({j \in ProcIds : procs[j].op = procs[i].op}) = 1
            /\ mpc \in {procs[i].op, "raised"}
            /\ mpc = "raised" => outcome.kind = "raise"

C2_Witness ==
    /\ procs # <<>>
    /\ Failed(Len(procs))
    /\ mpc = "raised"
    /\ outcome.kind = "raise"
    /\ outcome.exc = "RuntimeError"

\* C3: a call whose child exited with code zero returns a list of exactly
\* one record holding the child's stdout and stderr unchanged (for run also
\* the samfile_path given to the child after -S); a call whose child exited
\* non-zero returns nothing.
C3_ZeroExitReturnsOutput ==
    /\ outcome.kind = "return" =>
          /\ CallEndedAfterChild
          /\ Exited(Len(procs)) /\ ~Failed(Len(procs))
          /\ Len(outcome.value) = 1
          /\ outcome.value[1].output = Last(procs).stdout
          /\ outcome.value[1].stderr = Last(procs).stderr
          /\ DOMAIN outcome.value[1] =
                IF outcome.op = "run"
                THEN {"output", "stderr", "samfile_path"}
                ELSE {"output", "stderr"}
          /\ outcome.op = "run" =>
                outcome.value[1].samfile_path = TokenAfter(Last(procs).cmd, <<"-S">>)
    /\ CallEndedAfterChild =>
          (outcome.kind = "return" <=> ~Failed(Len(procs)))

C3_Witness ==
    /\ outcome.kind = "return"
    /\ outcome.op = "run"
    /\ BLen(outcome.value[1].output) > StderrCeiling
    /\ outcome.value[1].stderr # <<>>
    /\ outcome.value[1].stderr # outcome.value[1].output

\* The non-blank lines of a byte buffer, in order.
NonBlank(line) == textstrip(line) # <<>>
NonBlankLines(buf) == SelectSeq(splitlines(buf), NonBlank)
IsStderrLine(entry) == entry.level = "error" /\ entry.msg = "stderr line"
LoggedStderrLines == SelectSeq(log, IsStderrLine)

\* C4: when a call has ended after its child exited non-zero, the error log
\* holds every non-blank line of the child's stderr exactly once, in order,
\* and no blank line.
C4_EveryLineLogged ==
    (CallEndedAfterChild /\ Failed(Len(procs))) =>
        LET want == NonBlankLines(Last(procs).stderr) IN
        /\ Len(LoggedStderrLines) = Len(want)
        /\ \A k \in 1..Len(want) :
              /\ Decodable(want[k])
              /\ LoggedStderrLines[k].arg = decode(textstrip(want[k]))

\* str.encode('utf-8'), the inverse of decode.
RECURSIVE encodeRuns(_)
encodeRuns(t) ==
    IF t = <<>> THEN <<>>
    ELSE IF Head(t).ch = "E9"
         THEN [k \in 1..(2 * Head(t).n) |->
                  IF k % 2 = 1 THEN Run("C3", 1) ELSE Run("A9", 1)]
              \o encodeRuns(Tail(t))
         ELSE <<Head(t)>> \o encodeRuns(Tail(t))

RuntimeErrorRaised ==
    /\ CallEndedAfterChild
    /\ outcome.kind = "raise"
    /\ outcome.exc = "RuntimeError"

\* C5 as amended: the stderr embedded in a RuntimeError's message is the
\* child's stderr cut to its first 500,000 bytes, and the stdout embedded in
\* it is the child's whole stdout.
C5_StderrTruncatedStdoutWhole ==
    RuntimeErrorRaised =>
        LET err == encodeRuns(outcome.what.stderr)
            all == Last(procs).stderr
        IN  /\ BLen(err) <= StderrCeiling
            /\ BLen(err) = IF BLen(all) < StderrCeiling THEN BLen(all)
                           ELSE StderrCeiling
            /\ Take(all, BLen(err)) = err
            /\ encodeRuns(outcome.what.stdout) = Last(procs).stdout

C5_Witness ==
    /\ RuntimeErrorRaised
    /\ BLen(Last(procs).stderr) > StderrCeiling
    /\ BLen(Last(procs).stdout) > StderrCeiling

\* C5 as claimed: neither the stdout nor the stderr embedded in a
\* RuntimeError's message exceeds 500,000 bytes.
C5_BothTruncated ==
    RuntimeErrorRaised =>
        /\ BLen(encodeRuns(outcome.what.stdout)) <= StderrCeiling
        /\ BLen(encodeRuns(outcome.what.stderr)) <= StderrCeiling

\* C6: the argument vector of every child launched by align is flair align
\* -g reference -t str(n_cpu) -o output_dir, then '--nvrna' exactly when
\* is_native_rna, then one '-r' file pair per read file in input order.
C6_AlignVector ==
    \A i \in ProcIds :
        procs[i].op = "align" =>
            LET obj == wrappers["FLAIR"]
                cmd == procs[i].cmd
                at == IF obj.is_native_rna THEN 9 ELSE 8
                rest == SubSeq(cmd, at + 1, Len(cmd))
            IN  /\ Len(cmd) = at + 2 * Len(obj.fl_reads)
                /\ SubSeq(cmd, 1, 8) =
                      << <<"flair">>, <<"align">>, <<"-g">>, obj.reference,
                         <<"-t">>, str(obj.n_cpu), <<"-o">>, obj.output_dir >>
                /\ obj.is_native_rna => cmd[9] = <<"--nvrna">>
                /\ ~obj.is_native_rna =>
                      \A j \in 1..Len(cmd) : cmd[j] # <<"--nvrna">>
                /\ \A k \in 1..Len(obj.fl_reads) :
                      /\ rest[2 * k - 1] = <<"-r">>
                      /\ rest[2 * k] = obj.fl_reads[k]
                /\ Cardinality({j \in 1..Len(cmd) : cmd[j] = <<"-r">>})
                      = Len(obj.fl_reads)

C6_Witness ==
    \E i \in ProcIds :
        /\ procs[i].op = "align"
        /\ wrappers["FLAIR"].is_native_rna
        /\ wrappers["FLAIR"].fl_reads = << <<"reads2">>, <<"reads1">> >>
        /\ wrappers["FLAIR"].n_cpu = 16

\* C7: the argument vector of every child launched by qc is python
\* <sqanti_dir>/sqanti3_qc.py -t str(n_cpu) -d output_dir isoforms
\* annotation reference, output_dir being the instance's output directory.
C7_QcVector ==
    \A i \in ProcIds :
        procs[i].op = "qc" =>
            LET obj == wrappers["SQANTI"] IN
            procs[i].cmd =
                << <<"python">>,
                   rstrip(obj.sqanti_dir, "/")
                       \o <<"/", "sqanti3", "_", "qc", ".", "py">>,
                   <<"-t">>, str(obj.n_cpu),
                   <<"-d">>, obj.output_dir,
                   obj.isoforms, obj.annotation, obj.reference >>

\* The file-type suffixes a read file carries.
ReadSuffixes == {<<"fastq">>, <<"fq">>, <<"fasta">>, <<"fa">>, <<"gz">>}

RECURSIVE DropSuffixes(_)
DropSuffixes(parts) ==
    IF Len(parts) > 1 /\ Last(parts) \in ReadSuffixes
    THEN DropSuffixes(Front(parts))
    ELSE parts

RECURSIVE JoinDots(_)
JoinDots(parts) ==
    IF Len(parts) = 1 THEN parts[1]
    ELSE parts[1] \o <<".">> \o JoinDots(Tail(parts))

\* The file name of a path without its directories and file-type suffixes.
SampleNameOf(path) ==
    JoinDots(DropSuffixes(split(Last(split(strip(path), "/")), ".")))

\* C8: the token run passes after -S is <output_dir>/<sample_name>.sam,
\* sample_name being the file name of R1 (the token after -1) without its
\* directories and file-type suffixes.
C8_SamPath ==
    \A i \in ProcIds :
        procs[i].op = "run" =>
            TokenAfter(procs[i].cmd, <<"-S">>) =
                rstrip(wrappers["Hisat2"].output_dir, "/") \o <<"/">>
                    \o SampleNameOf(TokenAfter(procs[i].cmd, <<"-1">>))
                    \o <<".", "sam">>

\* Some path on disk is reads_path followed by "_" and anything but "/".
MatchedOnDisk(reads_path) ==
    \E f \in disk :
        /\ Len(f) > Len(reads_path)
        /\ \A j \in 1..Len(reads_path) : f[j] = reads_path[j]
        /\ f[Len(reads_path) + 1] = "_"
        /\ \A j \in (Len(reads_path) + 2)..Len(f) : f[j] # "/"

\* C9: a constructor given a read-file path that matches nothing on disk
\* ends with ValueError and leaves no wrapper; a wrapper whose construction
\* failed never launches a child; and every read-file path of a wrapper that
\* was constructed matches something on disk.
C9_UnmatchedReadsRejected ==
    \A c \in Classes :
        /\ (/\ ctor[c].status # "unborn"
            /\ \E k \in 1..Len(ctor[c].reads) : ~MatchedOnDisk(ctor[c].reads[k]))
              => ctor[c].status = "ValueError"
        /\ ctor[c].status \notin {"unborn", "ok"} =>
              /\ wrappers[c] = NoObj
              /\ \A i \in ProcIds : ClassOf(procs[i].op) # c
        /\ ctor[c].status = "ok" =>
              /\ wrappers[c] # NoObj
              /\ \A k \in 1..Len(ctor[c].reads) : MatchedOnDisk(ctor[c].reads[k])

C9_Witness ==
    /\ ctor["FLAIR"].status = "ValueError"
    /\ ctor["FLAIR"].reads = << <<"reads1">>, <<"reads2">> >>
    /\ MatchedOnDisk(<<"reads1">>)
    /\ <<"reads2">> \in disk
    /\ log # <<>>
    /\ wrappers["FLAIR"] = NoObj

\* C10: a method call raises only after its child was launched and exited
\* non-zero: building the argument vector never raises.
C10_ConstructionCannotFail ==
    outcome.kind = "raise" =>
        /\ procs # <<>>
        /\ Last(procs).op = outcome.op
        /\ Failed(Len(procs))

====
